---------------------------- MODULE Spec2Model ----------------------------
(***************************************************************************)
(* Model of castorini/nuggetizer: the provider client (LLMHandler,         *)
(* AsyncLLMHandler: construction, run with retry and credential rotation)  *)
(* and the windowed stages of Nuggetizer (create: extraction and scoring;  *)
(* assign).                                                                *)
(*                                                                         *)
(* Temperatures are in tenths (0.0 -> 0, 0.2 -> 2, 1.0 -> 10).             *)
(* A credential is a natural number; api_keys is the sequence of the       *)
(* credentials, current_key_idx is 0-based as in the source.               *)
(***************************************************************************)
EXTENDS Naturals, Sequences, FiniteSets

VARIABLES
    \* ---- handler (LLMHandler / AsyncLLMHandler instance) ----
    handler_kind,      \* "sync" (core/llm.py) or "async" (core/async_llm.py)
    api_keys,          \* self.api_keys
    current_key_idx,   \* self.current_key_idx
    client_api_key,    \* self.client.api_key
    model,             \* self.model, a sequence of characters
    ctor,              \* the arguments of __init__ and the environment it reads
    built,             \* how __init__ ended and the client it built
    \* ---- one run(messages, temperature) call ----
    rpc,               \* "idle" | "running" | "returned" | "RuntimeError" | "ValueError"
    remaining_retry,   \* local remaining_retry of LLMHandler.run
    attempts,          \* log of this run's provider calls: <<[key, outcome, messages,
                       \* temperature]>>, messages and temperature as sent
    prompt,            \* the message list the caller passed to run
    caller_messages,   \* the list the caller passed, as the caller finds it now
    messages,          \* local messages of run
    run_temperature,   \* local temperature of run, in tenths
    \* ---- one stage call of Nuggetizer (create or assign) ----
    spc,               \* position in the stage call: "<x>_begin" (entered), "<x>_trial" (in
                       \* the inner while loop of a window), "<x>_done" (returned); x is
                       \* a (assign), e (create, extraction), s (create, scoring)
    window_size,       \* self.creator_window_size / scorer_window_size / assigner_window_size
    store_trace,       \* self.store_trace
    \* ---- one call of assign_batch around the assign calls ----
    bpc,               \* position in assign_batch: "b_begin" (entered), "b_assign" (in
                       \* the list comprehension), "b_done" (returned), "b_ValueError"
    batch,             \* its arguments: [queries, contexts, nuggets_list]
    batch_results,     \* the list the comprehension has built so far
    \* ---- a second caller of the same handler ----
    peer,              \* its run call: [rpc, remaining_retry, key]
    start,             \* local start
    trial_count,       \* local trial_count
    temperature,       \* local temperature, in tenths
    stage_prompt,      \* local prompt: the items the window's prompt is built from
    context,           \* assign: the target passage ("" or "passage")
    nuggets,           \* assign: the input list of ScoredNugget
    assigned_nuggets,  \* assign: local assigned_nuggets, the list returned
    documents,         \* create: len(request.documents)
    max_nuggets,       \* create: self.creator_max_nuggets
    current_nuggets,   \* create: local current_nuggets, the running claim list
    scored_nuggets,    \* create: local scored_nuggets, the list returned
    \* ---- history ----
    called,            \* whether this stage call has issued a generation call (run)
    partials,          \* how many failed parses of this stage call left entities behind
    last_step          \* what the latest trial did: [how, len, items]; how is "none",
                       \* "run_raised", "parsed", "retry" or "exhausted", items the
                       \* window's length, len the parsed list's length (how = "parsed");
                       \* with error, the exception run raised (how = "run_raised")

hvars == <<handler_kind, api_keys, current_key_idx, client_api_key, model, ctor, built>>
rvars == <<rpc, remaining_retry, attempts, prompt, caller_messages, messages,
          run_temperature>>
\* the locals of the window loops
lvars == <<spc, start, trial_count, temperature, stage_prompt>>
\* assign's inputs and output
avars == <<context, nuggets, assigned_nuggets>>
\* create's inputs and lists
cvars == <<documents, max_nuggets, current_nuggets, scored_nuggets>>
\* the history variables
gvars == <<called, partials, last_step>>
\* the attributes of the Nuggetizer the stage call reads
wvars == <<window_size, store_trace>>
\* the batch call around a stage call
bvars == <<bpc, batch, batch_results>>
\* what a stage call leaves alone
kvars == <<wvars, bvars, peer>>
svars == <<lvars, kvars, avars, cvars, gvars>>
vars == <<hvars, rvars, svars>>

-----------------------------------------------------------------------------
(* Bounds of the model *)

\* most credentials in api_keys
MaxKeys == 2
\* most provider calls of one AsyncLLMHandler.run the model follows
MaxAsyncCalls == 6

\* most nuggets passed to assign, most claims entering the scoring phase
MaxNuggets == 3
\* largest window size
MaxWindow == 2
\* most failed parses of one stage call that leave entities in its output
MaxPartials == 1

\* most documents of a request
MaxDocs == 2
\* largest creator_max_nuggets
MaxCap == 2
\* most entries of an argument of assign_batch
MaxBatch == 2
\* most nuggets of one entry of nuggets_list
MaxBatchNuggets == 1

(* Program constants *)

\* a budget of one trial more
TrialBudgetLonger == 500 + 1
\* trial_count = 500
TrialBudget == 500
\* temperature = 0.0
TempInit == 0
\* temperature = 0.2
TempRetry == 2

\* remaining_retry = 5
MaxRetry == 5
\* temperature = 1.0
TempForced == 10

-----------------------------------------------------------------------------
(* The provider: what one chat.completions.create call, and the processing *)
(* of its completion inside the try block, can do.                         *)
(*   completion: create returned a completion (FALSE: create raised)       *)
(*   finish:     choices[0].finish_reason of that completion               *)
(*   raises:     an exception is raised inside the try block: by create,   *)
(*               or afterwards (empty choices, tokenizer fallback or       *)
(*               encode failing)                                           *)

Outcomes ==
    {[completion |-> FALSE, finish |-> "none", raises |-> TRUE]}
    \cup [completion : {TRUE}, finish : {"stop", "content_filter"}, raises : BOOLEAN]

\* rotation that stays on the same credential
RotateStuck(keys, idx) == idx

\* self.current_key_idx = (self.current_key_idx + 1) % len(self.api_keys)
Rotate(keys, idx) == (idx + 1) % Len(keys)

\* The run state an attempt works on.
RunRec == [rpc |-> rpc, remaining_retry |-> remaining_retry,
           current_key_idx |-> current_key_idx, client_api_key |-> client_api_key]

\* RunStep with the budget test off by one (remaining_retry < 0)
RunStepOffByOne(h, keys, o) ==
    IF ~o.raises
    THEN [h EXCEPT !.rpc = "returned"]
    ELSE LET rem == h.remaining_retry - 1 IN
         IF rem < 0
         THEN [h EXCEPT !.remaining_retry = rem, !.rpc = "RuntimeError"]
         ELSE IF o.completion /\ o.finish = "content_filter"
         THEN [h EXCEPT !.remaining_retry = rem, !.rpc = "ValueError"]
         ELSE [h EXCEPT !.remaining_retry = rem,
                        !.current_key_idx = Rotate(keys, h.current_key_idx),
                        !.client_api_key = keys[Rotate(keys, h.current_key_idx) + 1]]

\* RunStep without self.client.api_key = self.api_keys[self.current_key_idx]
RunStepKeepsClient(h, keys, o) ==
    IF ~o.raises
    THEN [h EXCEPT !.rpc = "returned"]
    ELSE LET rem == h.remaining_retry - 1 IN
         IF rem <= 0
         THEN [h EXCEPT !.remaining_retry = rem, !.rpc = "RuntimeError"]
         ELSE IF o.completion /\ o.finish = "content_filter"
         THEN [h EXCEPT !.remaining_retry = rem, !.rpc = "ValueError"]
         ELSE [h EXCEPT !.remaining_retry = rem,
                        !.current_key_idx = Rotate(keys, h.current_key_idx)]

\* One iteration of the while loop of LLMHandler.run with provider outcome o.
RunStep(h, keys, o) ==
    IF ~o.raises
    THEN [h EXCEPT !.rpc = "returned"]
    ELSE LET rem == h.remaining_retry - 1 IN
         IF rem <= 0
         THEN [h EXCEPT !.remaining_retry = rem, !.rpc = "RuntimeError"]
         ELSE IF o.completion /\ o.finish = "content_filter"
         THEN [h EXCEPT !.remaining_retry = rem, !.rpc = "ValueError"]
         ELSE [h EXCEPT !.remaining_retry = rem,
                        !.current_key_idx = Rotate(keys, h.current_key_idx),
                        !.client_api_key = keys[Rotate(keys, h.current_key_idx) + 1]]

\* One iteration of the while True loop of AsyncLLMHandler.run.
AsyncRunStep(h, keys, o) ==
    IF ~o.raises
    THEN [h EXCEPT !.rpc = "returned"]
    ELSE [h EXCEPT !.current_key_idx = Rotate(keys, h.current_key_idx),
                   !.client_api_key = keys[Rotate(keys, h.current_key_idx) + 1]]

-----------------------------------------------------------------------------
(* Model names and message lists *)

\* The model names followed: "gpt-4o", "o1", "o3", "o4", "gpt-5".
Gpt4o == <<"g", "p", "t", "-", "4", "o">>
ModelNames ==
    {Gpt4o, <<"o", "1">>, <<"o", "3">>, <<"o", "4">>, <<"g", "p", "t", "-", "5">>}

\* p in m, for strings
Contains(m, p) ==
    \E i \in 1..(Len(m) - Len(p) + 1) : SubSeq(m, i, i + Len(p) - 1) = p

\* A message; its content is a sequence of pieces of text.
Msg(role, content) == [role |-> role, content |-> content]

\* The message lists passed to run: the system and user messages the prompt
\* builders return, and a list with one message more.
Prompts ==
    {<<Msg("system", <<"S">>), Msg("user", <<"U">>)>>,
     <<Msg("system", <<"S">>), Msg("user", <<"U">>), Msg("assistant", <<"A">>)>>}

\* new_messages = messages[1:]
\* new_messages[0]["content"] = messages[0]["content"] + "\n" + messages[1]["content"]
\* messages = new_messages[:]
Merge(msgs) ==
    [i \in 1..(Len(msgs) - 1) |->
        IF i = 1
        THEN Msg(msgs[2].role, msgs[1].content \o <<"\n">> \o msgs[2].content)
        ELSE msgs[i + 1]]

\* What the assignment new_messages[0]["content"] = ... does to the caller's
\* list: messages[1:] and new_messages[:] copy the list and not the messages
\* in it, so the local list msgs holds the last Len(msgs) message objects of
\* the caller's list, and the message written is one of the caller's.
MergeInPlace(caller, msgs) ==
    LET off == Len(caller) - Len(msgs) IN
    [caller EXCEPT ![off + 2].content = msgs[1].content \o <<"\n">> \o msgs[2].content]

\* The top of the while loop of LLMHandler.run, before the try block: raises
\* (IndexError) when messages[1] does not exist.
Prelude(m, msgs, temp) ==
    LET merge == \/ Contains(m, <<"o", "1">>)
                 \/ Contains(m, <<"o", "3">>)
                 \/ Contains(m, <<"o", "4">>)
        force == merge \/ Contains(m, <<"g", "p", "t", "-", "5">>)
    IN  IF merge /\ Len(msgs) < 2
        THEN [raises |-> TRUE, messages |-> msgs, temperature |-> temp,
              merged |-> FALSE]
        ELSE [raises |-> FALSE,
              messages |-> IF merge THEN Merge(msgs) ELSE msgs,
              temperature |-> IF force THEN TempForced ELSE temp,
              merged |-> merge]

\* The top of the while True loop of AsyncLLMHandler.run.
AsyncPrelude(m, msgs, temp) ==
    LET merge == Contains(m, <<"o", "1">>) \/ Contains(m, <<"o", "3">>)
    IN  IF merge /\ Len(msgs) < 2
        THEN [raises |-> TRUE, messages |-> msgs, temperature |-> temp,
              merged |-> FALSE]
        ELSE [raises |-> FALSE,
              messages |-> IF merge THEN Merge(msgs) ELSE msgs,
              temperature |-> IF merge THEN TempForced ELSE temp,
              merged |-> merge]

-----------------------------------------------------------------------------
(* LLMHandler.__init__ and AsyncLLMHandler.__init__                        *)
(* Credentials, URLs and versions are strings; None is Python's None.      *)

None == "None"

OpenRouterUrl == "https://openrouter.ai/api/v1"
VllmUrl == "http://localhost:8000/v1"

\* "openrouter/m"
OpenRouterModel == <<"o", "p", "e", "n", "r", "o", "u", "t", "e", "r", "/", "m">>
\* "GPT"
UpperGpt == <<"G", "P", "T">>
\* "m"
PlainModel == <<"m">>

\* str.lower() on the characters of the model names
LowerChar(ch) ==
    CASE ch = "G" -> "g"
      [] ch = "P" -> "p"
      [] ch = "T" -> "t"
      [] OTHER -> ch
LowerName(m) == [i \in 1..Len(m) |-> LowerChar(m[i])]

\* The settings get_azure_openai_args reads from the environment, by their keys
\* in azure_args: AZURE_OPENAI_API_VERSION, AZURE_OPENAI_API_BASE,
\* AZURE_OPENAI_API_KEY.
AzureSettings == {"api_version", "api_base", "api_key"}

\* The settings the message of the sanity check names.
AssertNames == {"api_base", "api_version"}

\* The calls of __init__: its arguments and what the environment holds
\* (env_azure: whether the three AZURE_OPENAI_* variables are all set,
\* azure_missing: the ones that are not;
\* env_vllm: what get_vllm_api_key() returns, a function utils/api.py is
\* asked for by the import and does not define in this tree).
CtorInputs ==
  {c \in
    [kind : {"sync", "async"},
     model : {Gpt4o, OpenRouterModel, PlainModel, UpperGpt},
     api_keys : {None, "key_arg"},
     api_type : {None, "openrouter", "azure"},
     api_base : {None, "base_arg"},
     api_version : {None, "version_arg"},
     use_azure_openai : BOOLEAN,
     use_openrouter : BOOLEAN,
     use_vllm : BOOLEAN,
     openrouter_api_key : {None, "openrouter_arg"},
     env_openai : {None, "openai_env"},
     env_openrouter : {None, "openrouter_env"},
     env_vllm : {None, "vllm_env"},
     env_azure : BOOLEAN,
     azure_missing : SUBSET AzureSettings] :
   c.env_azure = (c.azure_missing = {})}

NoCtor == [kind |-> "none"]
NotBuilt == [status |-> "none"]

\* a, never b
OrFirstOnly(a, b) == a

\* a or b
Or(a, b) == IF a # None THEN a ELSE b

Raised(e) == [status |-> e]

\* get_azure_openai_args() with the settings of `missing` unset: the assert
\* on all(values) comes first, so the for loop that raises ValueError for a
\* None value is entered only when no value is missing.
GetAzureOpenaiArgs(missing) ==
    IF missing # {}
    THEN [status |-> "AssertionError", names |-> AssertNames]
    ELSE [status |-> "ok", api_base |-> "azure_base_env",
          api_version |-> "azure_version_env", api_key |-> "azure_key_env"]

\* The resolution of api_type, api_base, api_version and api_keys: the if
\* statement of __init__ and the test that follows it.
Resolve(c) ==
    LET r0 == [status |-> "ok", api_type |-> c.api_type, api_base |-> c.api_base,
               api_version |-> c.api_version, api_keys |-> c.api_keys]
        openrouter_key == Or(c.openrouter_api_key, c.env_openrouter)
        r1 ==
            IF c.use_azure_openai
                  /\ (\/ c.api_keys = None
                      \/ c.api_type = "azure"
                      \/ (c.api_type = None
                            /\ Contains(LowerName(c.model), <<"g", "p", "t">>)))
            THEN LET azure_args == GetAzureOpenaiArgs(c.azure_missing) IN
                 IF azure_args.status # "ok"
                 THEN azure_args
                 ELSE [r0 EXCEPT !.api_type = "azure",
                                 !.api_base = azure_args.api_base,
                                 !.api_version = azure_args.api_version,
                                 !.api_keys = azure_args.api_key]
            ELSE IF c.api_keys = None
            THEN IF c.use_vllm
                 THEN [r0 EXCEPT !.api_keys = c.env_vllm, !.api_base = VllmUrl,
                                 !.api_type = "vllm"]
                 ELSE IF c.use_openrouter
                 THEN IF openrouter_key # None
                      THEN [r0 EXCEPT !.api_keys = openrouter_key,
                                      !.api_base = OpenRouterUrl,
                                      !.api_type = "openrouter"]
                      ELSE Raised("ValueError")
                 ELSE IF c.env_openai # None
                 THEN [r0 EXCEPT !.api_keys = c.env_openai, !.api_type = "openai"]
                 ELSE IF openrouter_key # None
                 THEN [r0 EXCEPT !.api_keys = openrouter_key,
                                 !.api_base = OpenRouterUrl,
                                 !.api_type = "openrouter"]
                 ELSE r0
            ELSE [r0 EXCEPT !.api_type = "openai"]
    IN  IF r1.status # "ok" THEN r1
        ELSE IF r1.api_type = None \/ r1.api_keys = None THEN Raised("ValueError")
        ELSE r1

\* _initialize_client(api_type, api_base, api_version) with api_key = api_keys[0]
InitializeClient(r) ==
    IF r.api_type = "azure" /\ r.api_base # None /\ r.api_version # None
    THEN [status |-> "ok", cls |-> "AzureOpenAI", api_key |-> r.api_keys,
          base_url |-> r.api_base]
    ELSE IF r.api_type = "openai"
    THEN [status |-> "ok", cls |-> "OpenAI", api_key |-> r.api_keys, base_url |-> None]
    ELSE IF r.api_type \in {"openrouter", "vllm"}
    THEN [status |-> "ok", cls |-> "OpenAI", api_key |-> r.api_keys,
          base_url |-> r.api_base]
    ELSE Raised("ValueError")

\* The attributes __init__ sets on the handler
HandlerAttrs(kind) ==
    {"model", "context_size", "api_keys", "current_key_idx", "client"}
        \cup (IF kind = "sync" THEN {"vllm_port"} ELSE {})

\* __init__ from its first to its last statement
Build(c) ==
    LET r == Resolve(c) IN
    IF r.status # "ok" THEN r
    ELSE IF c.kind = "async" /\ (r.api_base = None \/ r.api_version = None)
    THEN Raised("AssertionError")
    ELSE LET cl == InitializeClient(r) IN
         IF cl.status # "ok" THEN cl
         ELSE [status |-> "ok", api_type |-> r.api_type, client |-> cl,
               attrs |-> HandlerAttrs(c.kind)]

\* Before __init__ runs: no attribute of the handler is set.
Unbuilt ==
    /\ handler_kind = ctor.kind
    /\ api_keys = <<>>
    /\ current_key_idx = 0
    /\ client_api_key = None
    /\ model = <<>>
    /\ built = NotBuilt

\* LLMHandler(...) or AsyncLLMHandler(...) is called.
Construct ==
    /\ built = NotBuilt
    /\ ctor # NoCtor
    /\ built' = Build(ctor)
    /\ model' = ctor.model
    /\ IF built'.status = "ok"
       THEN /\ api_keys' = <<built'.client.api_key>>
            /\ client_api_key' = built'.client.api_key
       ELSE UNCHANGED <<api_keys, client_api_key>>
    /\ UNCHANGED <<handler_kind, current_key_idx, ctor, rvars, svars>>

-----------------------------------------------------------------------------
(* Actions of the provider client *)

\* __init__: api_keys as given, current_key_idx = 0, client built with api_keys[0]
HandlerInit ==
    /\ handler_kind \in {"sync", "async"}
    /\ \E n \in 1..MaxKeys : api_keys = [i \in 1..n |-> i]
    /\ current_key_idx = 0
    /\ client_api_key = api_keys[1]
    /\ model \in ModelNames
    /\ ctor = NoCtor
    /\ built = NotBuilt

RunIdle ==
    /\ rpc = "idle"
    /\ remaining_retry = 0
    /\ attempts = <<>>
    /\ prompt = <<>>
    /\ caller_messages = <<>>
    /\ messages = <<>>
    /\ run_temperature = 0

\* RunEnter that starts every run on the first credential
RunEnterResets ==
    /\ rpc \in {"idle", "returned", "RuntimeError", "ValueError", "IndexError"}
    /\ rpc' = "running"
    /\ remaining_retry' = IF handler_kind = "sync" THEN MaxRetry ELSE 0
    /\ attempts' = <<>>
    /\ prompt' \in Prompts
    /\ caller_messages' = prompt'
    /\ messages' = prompt'
    /\ run_temperature' \in {TempInit, TempRetry}
    /\ current_key_idx' = 0
    /\ client_api_key' = api_keys[1]
    /\ UNCHANGED <<handler_kind, api_keys, model, ctor, built, svars>>

\* A caller enters run: the locals are fresh, the handler is as the last run left it.
RunEnter ==
    /\ rpc \in {"idle", "returned", "RuntimeError", "ValueError", "IndexError"}
    /\ rpc' = "running"
    /\ remaining_retry' = IF handler_kind = "sync" THEN MaxRetry ELSE 0
    /\ attempts' = <<>>
    /\ prompt' \in Prompts
    /\ caller_messages' = prompt'
    /\ messages' = prompt'
    /\ run_temperature' \in {TempInit, TempRetry}
    /\ UNCHANGED <<hvars, svars>>

\* LLMHandler.run: one iteration of the while loop: the rewriting of messages
\* and temperature, then one provider call and what follows it.
Attempt ==
    /\ handler_kind = "sync"
    /\ rpc = "running"
    /\ remaining_retry > 0
    /\ LET p == Prelude(model, messages, run_temperature) IN
       IF p.raises
       THEN /\ rpc' = "IndexError"
            /\ UNCHANGED <<remaining_retry, current_key_idx, client_api_key,
                           attempts, caller_messages, messages, run_temperature>>
       ELSE /\ messages' = p.messages
            /\ caller_messages' = IF p.merged
                                  THEN MergeInPlace(caller_messages, messages)
                                  ELSE caller_messages
            /\ run_temperature' = p.temperature
            /\ \E o \in Outcomes :
                  LET h == RunStep(RunRec, api_keys, o) IN
                  /\ rpc' = h.rpc
                  /\ remaining_retry' = h.remaining_retry
                  /\ current_key_idx' = h.current_key_idx
                  /\ client_api_key' = h.client_api_key
                  /\ attempts' = Append(attempts,
                        [key |-> client_api_key, outcome |-> o,
                         messages |-> p.messages, temperature |-> p.temperature])
    /\ UNCHANGED <<handler_kind, api_keys, model, ctor, built, prompt, svars>>

\* AsyncLLMHandler.run: one iteration of the while True loop.
AsyncAttempt ==
    /\ handler_kind = "async"
    /\ rpc = "running"
    /\ Len(attempts) < MaxAsyncCalls
    /\ LET p == AsyncPrelude(model, messages, run_temperature) IN
       IF p.raises
       THEN /\ rpc' = "IndexError"
            /\ UNCHANGED <<remaining_retry, current_key_idx, client_api_key,
                           attempts, caller_messages, messages, run_temperature>>
       ELSE /\ messages' = p.messages
            /\ caller_messages' = IF p.merged
                                  THEN MergeInPlace(caller_messages, messages)
                                  ELSE caller_messages
            /\ run_temperature' = p.temperature
            /\ \E o \in Outcomes :
                  LET h == AsyncRunStep(RunRec, api_keys, o) IN
                  /\ rpc' = h.rpc
                  /\ remaining_retry' = h.remaining_retry
                  /\ current_key_idx' = h.current_key_idx
                  /\ client_api_key' = h.client_api_key
                  /\ attempts' = Append(attempts,
                        [key |-> client_api_key, outcome |-> o,
                         messages |-> p.messages, temperature |-> p.temperature])
    /\ UNCHANGED <<handler_kind, api_keys, model, ctor, built, prompt, svars>>

-----------------------------------------------------------------------------
(* The stages' view of run: LLMHandler.run is called to completion.        *)

RECURSIVE RunResults(_, _)
\* Every state in which a run entered in state h (rpc = "running") can end.
RunResults(h, keys) ==
    IF h.rpc # "running"
    THEN {h}
    ELSE UNION {RunResults(x, keys) : x \in {RunStep(h, keys, o) : o \in Outcomes}}

\* self.<stage>_llm.run(prompt, temperature=temperature), from entry to its end:
\* how it ends (rpc) and the handler it leaves; its locals are gone.
StageRunResults ==
    {[rpc |-> r.rpc, current_key_idx |-> r.current_key_idx,
      client_api_key |-> r.client_api_key] :
        r \in RunResults([rpc |-> "running", remaining_retry |-> MaxRetry,
                          current_key_idx |-> current_key_idx,
                          client_api_key |-> client_api_key], api_keys)}

\* The handler after the stage's run call ended in state r.
StageRunEffect(r) ==
    /\ current_key_idx' = r.current_key_idx
    /\ client_api_key' = r.client_api_key
    /\ UNCHANGED <<handler_kind, api_keys, model, ctor, built, rvars>>

\* Nuggetizer.__init__: each stage's LLMHandler is built from api_keys: Optional[str]
\* (or from one environment credential), so its api_keys holds one credential;
\* its model is the default, "gpt-4o".
StageHandlerInit ==
    /\ handler_kind = "sync"
    /\ model = Gpt4o
    /\ ctor = NoCtor
    /\ built = NotBuilt
    /\ api_keys = <<1>>
    /\ current_key_idx = 0
    /\ client_api_key = api_keys[1]

-----------------------------------------------------------------------------
(* Responses and their parsing (scoring and assignment).                   *)
(* A response, once its code fences are stripped, either is no Python      *)
(* literal that can be zipped (parsed = FALSE: literal_eval or zip raises) *)
(* or evaluates to a list; an element of the list is a string or not.      *)

Str(s) == [type |-> "str", val |-> s]
NonStr == [type |-> "int", val |-> "0"]

SeqsUpTo(S, n) == UNION {[1..m -> S] : m \in 0..n}

\* The responses to a window of k items: the lists of up to k + 1 elements.
Responses(S, k) ==
    {[parsed |-> FALSE, value |-> <<>>]}
    \cup {[parsed |-> TRUE, value |-> v] : v \in SeqsUpTo(S, k + 1)}

\* str.lower()
Lower(s) ==
    CASE s = "SUPPORT" -> "support"
      [] s = "VITAL" -> "vital"
      [] OTHER -> s

Min(a, b) == IF a <= b THEN a ELSE b

\* zip(window, value) visits the first min(len(window), len(value)) pairs
ZipLen(window, value) == Min(Len(window), Len(value))

\* The first visited pair whose label is no string (label.lower() raises there);
\* 0 when the loop runs to its end.
FirstBad(window, value) ==
    LET bad == {j \in 1..ZipLen(window, value) : value[j].type # "str"} IN
    IF bad = {} THEN 0 ELSE CHOOSE j \in bad : \A i \in bad : j <= i

\* How many entities the for loop over zip(window, value) appends.
Emitted(window, value) ==
    IF FirstBad(window, value) = 0
    THEN ZipLen(window, value)
    ELSE FirstBad(window, value) - 1

\* Whether the second try block raises on response resp.
ParseRaises(window, resp) ==
    \/ ~resp.parsed
    \/ FirstBad(window, resp.value) # 0

\* seq[s:e], s and e 0-based as in the source
Slice(seq, s, e) == [i \in 1..(e - s) |-> seq[s + i]]

\* an end that skips the item after the window
WindowEndSkip(n, w, s) == Min(s + w + 1, n)
\* end = min(start + window_size, len(items))
WindowEnd(n, w, s) == Min(s + w, n)

NoStep == [how |-> "none", len |-> 0, items |-> 0]
Step(how, len, items) == [how |-> how, len |-> len, items |-> items]

-----------------------------------------------------------------------------
(* Nuggetizer.assign(query, context, nuggets)                              *)

\* trace=self._create_trace(...) if self.store_trace else None
TraceOf == IF store_trace THEN "Trace" ELSE None

AssignedScoredNugget(nugget, assignment, trace) ==
    [text |-> nugget.text, importance |-> nugget.importance, assignment |-> assignment,
     trace |-> trace]

\* window_nuggets = nuggets[start:end]
WindowNuggets == Slice(nuggets, start, WindowEnd(Len(nuggets), window_size, start))

\* What the provider may put in a list of labels.
AssignElems == {Str("SUPPORT"), Str("maybe"), NonStr}

\* the entities the for loop appends for the parsed value
AssignEntities(window, value) ==
    [j \in 1..Emitted(window, value) |->
        AssignedScoredNugget(window[j], Lower(value[j].val), TraceOf)]

\* the window with one label for all
AssignAll(window, label) ==
    [j \in 1..Len(window) |-> AssignedScoredNugget(window[j], label, TraceOf)]

\* the window with one label for all, built without the trace argument: the
\* field keeps the default of the dataclass
AssignUntraced(window, label) ==
    [j \in 1..Len(window) |-> AssignedScoredNugget(window[j], label, None)]

\* assignment="failed" of the except branch of the run call
FailedAssignment == "failed"
\* the default of the dataclass field in place of "failed"
ExhaustedAssignmentNotSupport == "not_support"

\* assignment="failed" of the trial_count == 0 branch
ExhaustedAssignment == "failed"

\* The nuggets passed to assign: texts 1..n, importance vital and okay in turn.
InputNuggets(n) ==
    [i \in 1..n |-> [text |-> i, importance |-> IF i % 2 = 1 THEN "vital" ELSE "okay"]]

\* No stage call has started: the locals and the history are fresh.
StageFresh ==
    /\ start = 0
    /\ trial_count = 0
    /\ temperature = 0
    /\ stage_prompt = <<>>
    /\ called = FALSE
    /\ partials = 0
    /\ last_step = NoStep

NoAssign ==
    /\ context = ""
    /\ nuggets = <<>>
    /\ assigned_nuggets = <<>>

NoCreate ==
    /\ documents = 0
    /\ max_nuggets = 1
    /\ current_nuggets = <<>>
    /\ scored_nuggets = <<>>

\* No assign_batch call is in progress.
EmptyBatch == [queries |-> <<>>, contexts |-> <<>>, nuggets_list |-> <<>>]

NoBatch ==
    /\ bpc = "none"
    /\ batch = EmptyBatch
    /\ batch_results = <<>>

\* No second caller shares the handler.
PeerNone == [rpc |-> "none", remaining_retry |-> 0, key |-> 0]

NoPeer == peer = PeerNone

\* assign is called.
AssignEnter ==
    /\ spc = "a_begin"
    /\ \E n \in 0..MaxNuggets : nuggets = InputNuggets(n)
    /\ window_size \in 1..MaxWindow
    /\ store_trace \in BOOLEAN
    /\ NoBatch
    /\ NoPeer
    /\ context \in {"", "passage"}
    /\ assigned_nuggets = <<>>
    /\ StageFresh
    /\ NoCreate

\* start = s, then the test of while start < len(nuggets): the next window's
\* temperature and trial_count, or return (the locals are gone)
AssignGoto(s) ==
    /\ start' = s
    /\ IF s < Len(nuggets)
       THEN /\ spc' = "a_trial"
            /\ stage_prompt' = Slice(nuggets, s, WindowEnd(Len(nuggets), window_size, s))
            /\ temperature' = TempInit
            /\ trial_count' = TrialBudget
       ELSE /\ spc' = "a_done"
            /\ stage_prompt' = <<>>
            /\ temperature' = 0
            /\ trial_count' = 0

\* assigned_nuggets = [], start = 0
AssignBegin ==
    /\ spc = "a_begin"
    /\ AssignGoto(0)
    /\ UNCHANGED <<hvars, rvars, kvars, avars, cvars, gvars>>

\* A trial whose run call raises: the window is emitted as failed and left.
AssignRunRaises ==
    /\ spc = "a_trial"
    /\ trial_count > 0
    /\ \E r \in StageRunResults :
          /\ r.rpc # "returned"
          /\ StageRunEffect(r)
          /\ last_step' = [how |-> "run_raised", len |-> 0, items |-> Len(WindowNuggets),
                           error |-> r.rpc]
    /\ called' = TRUE
    /\ assigned_nuggets' = assigned_nuggets \o AssignUntraced(WindowNuggets, FailedAssignment)
    /\ AssignGoto(WindowEnd(Len(nuggets), window_size, start))
    /\ UNCHANGED <<kvars, context, nuggets, cvars, partials>>

\* AssignParsed that writes the window's first label into the input nugget
AssignParsedWritesInput ==
    /\ spc = "a_trial"
    /\ trial_count > 0
    /\ \E r \in StageRunResults :
          /\ r.rpc = "returned"
          /\ StageRunEffect(r)
    /\ called' = TRUE
    /\ \E resp \in Responses(AssignElems, Len(WindowNuggets)) :
          /\ ~ParseRaises(WindowNuggets, resp)
          /\ assigned_nuggets' =
                assigned_nuggets \o AssignEntities(WindowNuggets, resp.value)
          /\ nuggets' = IF Len(resp.value) > 0
                        THEN [nuggets EXCEPT ![start + 1].importance =
                                                Lower(resp.value[1].val)]
                        ELSE nuggets
          /\ last_step' = Step("parsed", Len(resp.value), Len(WindowNuggets))
    /\ AssignGoto(WindowEnd(Len(nuggets), window_size, start))
    /\ UNCHANGED <<kvars, context, cvars, partials>>

\* A trial whose response is parsed and mapped without an exception: the
\* window is left.
AssignParsed ==
    /\ spc = "a_trial"
    /\ trial_count > 0
    /\ \E r \in StageRunResults :
          /\ r.rpc = "returned"
          /\ StageRunEffect(r)
    /\ called' = TRUE
    /\ \E resp \in Responses(AssignElems, Len(WindowNuggets)) :
          /\ ~ParseRaises(WindowNuggets, resp)
          /\ assigned_nuggets' =
                assigned_nuggets \o AssignEntities(WindowNuggets, resp.value)
          /\ last_step' = Step("parsed", Len(resp.value), Len(WindowNuggets))
    /\ AssignGoto(WindowEnd(Len(nuggets), window_size, start))
    /\ UNCHANGED <<kvars, context, nuggets, cvars, partials>>

\* A trial whose second try block raises: the entities appended before the
\* exception stay, the trial is counted and the temperature raised; on the
\* last trial the window is emitted as failed and left.
AssignParseRaises ==
    /\ spc = "a_trial"
    /\ trial_count > 0
    /\ \E r \in StageRunResults :
          /\ r.rpc = "returned"
          /\ StageRunEffect(r)
    /\ called' = TRUE
    /\ \E resp \in Responses(AssignElems, Len(WindowNuggets)) :
          /\ ParseRaises(WindowNuggets, resp)
          /\ LET kept == IF resp.parsed
                         THEN AssignEntities(WindowNuggets, resp.value)
                         ELSE <<>>
             IN
             /\ Len(kept) > 0 => partials < MaxPartials
             /\ partials' = IF Len(kept) > 0 THEN partials + 1 ELSE partials
             /\ assigned_nuggets' =
                   IF trial_count - 1 = 0
                   THEN assigned_nuggets \o kept
                            \o AssignAll(WindowNuggets, ExhaustedAssignment)
                   ELSE assigned_nuggets \o kept
    /\ IF trial_count - 1 = 0
       THEN /\ last_step' = Step("exhausted", 0, Len(WindowNuggets))
            /\ AssignGoto(WindowEnd(Len(nuggets), window_size, start))
       ELSE /\ last_step' = Step("retry", 0, Len(WindowNuggets))
            /\ trial_count' = trial_count - 1
            /\ temperature' = TempRetry
            /\ UNCHANGED <<start, spc, stage_prompt>>
    /\ UNCHANGED <<kvars, context, nuggets, cvars>>

InitAssign == StageHandlerInit /\ RunIdle /\ AssignEnter

NextAssign ==
    AssignBegin \/ AssignRunRaises \/ AssignParsed \/ AssignParseRaises

SpecAssign == InitAssign /\ [][NextAssign]_vars

\* assign runs on a thread that is not stopped, and each run call comes back
\* (five attempts at most, each with a timeout): a step that can be taken is
\* taken.
FairSpecAssign == SpecAssign /\ WF_vars(NextAssign)

-----------------------------------------------------------------------------
(* Nuggetizer.assign_batch(queries, contexts, nuggets_list)                *)

\* The nuggets of the k-th entry of nuggets_list: n nuggets whose texts no
\* other entry has.
BatchNuggets(k, n) ==
    [i \in 1..n |-> [text |-> k * MaxNuggets + i,
                     importance |-> IF i % 2 = 1 THEN "vital" ELSE "okay"]]

\* The arguments of assign_batch: three lists whose lengths are independent.
BatchInputs ==
    {[queries |-> [k \in 1..lq |-> k],
      contexts |-> [k \in 1..lc |-> "passage"],
      nuggets_list |-> [k \in 1..ln |-> BatchNuggets(k, f[k])]] :
        lq \in 0..MaxBatch, lc \in 0..MaxBatch,
        ln \in 0..MaxBatch, f \in [1..MaxBatch -> 0..MaxBatchNuggets]}

\* len(queries) != len(contexts) or len(queries) != len(nuggets_list)
LengthsDiffer(b) ==
    \/ Len(b.queries) # Len(b.contexts)
    \/ Len(b.queries) # Len(b.nuggets_list)

\* the k-th triple of zip taken from the other end
BatchTripleReversed(b, k) ==
    [context |-> b.contexts[Len(b.contexts) + 1 - k],
     nuggets |-> b.nuggets_list[Len(b.nuggets_list) + 1 - k]]

\* the k-th (query, context, nuggets) of zip(queries, contexts, nuggets_list)
BatchTriple(b, k) == [context |-> b.contexts[k], nuggets |-> b.nuggets_list[k]]

\* the number of triples zip yields
BatchLen(b) == Min(Len(b.queries), Min(Len(b.contexts), Len(b.nuggets_list)))

\* assign_batch is called.
BatchEnter ==
    /\ bpc = "b_begin"
    /\ batch \in BatchInputs
    /\ batch_results = <<>>
    /\ spc = "none"
    /\ window_size = 1
    /\ store_trace = TRUE
    /\ StageFresh
    /\ NoAssign
    /\ NoCreate
    /\ NoPeer

\* The comprehension takes its k-th triple and calls self.assign, or it is
\* exhausted and assign_batch returns the list.
BatchCall(k) ==
    IF k <= BatchLen(batch)
    THEN /\ bpc' = "b_assign"
         /\ spc' = "a_begin"
         /\ context' = BatchTriple(batch, k).context
         /\ nuggets' = BatchTriple(batch, k).nuggets
    ELSE /\ bpc' = "b_done"
         /\ spc' = "none"
         /\ context' = ""
         /\ nuggets' = <<>>

\* The length test: raise ValueError, or start the comprehension.
BatchBegin ==
    /\ bpc = "b_begin"
    /\ IF LengthsDiffer(batch)
       THEN /\ bpc' = "b_ValueError"
            /\ UNCHANGED <<spc, context, nuggets>>
       ELSE BatchCall(1)
    /\ UNCHANGED <<batch, batch_results, assigned_nuggets, start, trial_count,
                   temperature, stage_prompt, wvars, peer, cvars, gvars, hvars, rvars>>

\* self.assign has returned: its list is the next element of the result, the
\* locals of the call are gone.
BatchCollect ==
    /\ bpc = "b_assign"
    /\ spc = "a_done"
    /\ batch_results' = Append(batch_results, assigned_nuggets)
    /\ BatchCall(Len(batch_results) + 2)
    /\ assigned_nuggets' = <<>>
    /\ start' = 0
    /\ partials' = 0
    /\ last_step' = NoStep
    /\ UNCHANGED <<batch, trial_count, temperature, stage_prompt, called, wvars,
                   peer, cvars, hvars, rvars>>

InitBatch == StageHandlerInit /\ RunIdle /\ BatchEnter

NextBatch ==
    \/ BatchBegin
    \/ BatchCollect
    \/ AssignBegin
    \/ AssignRunRaises
    \/ AssignParsed
    \/ AssignParseRaises

SpecBatch == InitBatch /\ [][NextBatch]_vars

-----------------------------------------------------------------------------
(* Nuggetizer.create(request): the scoring phase                           *)

ScoredNugget(text, importance, trace) ==
    [text |-> text, importance |-> importance, trace |-> trace]

\* What the provider may put in a list of labels.
ScoreElems == {Str("VITAL"), Str("maybe"), NonStr}

\* importance="okay" of the trial_count == 0 branch
ExhaustedImportance == "okay"

\* current_nuggets[start:end]
WindowClaims ==
    Slice(current_nuggets, start, WindowEnd(Len(current_nuggets), window_size, start))

\* the entities the for loop appends for the parsed value
ScoreEntities(window, value) ==
    [j \in 1..Emitted(window, value) |->
        ScoredNugget(window[j], Lower(value[j].val), TraceOf)]

\* the window with one label for all
ScoreAll(window, label) ==
    [j \in 1..Len(window) |-> ScoredNugget(window[j], label, TraceOf)]

\* start = s, then the test of while start < len(current_nuggets): the next
\* window's temperature and trial_count, or return (the locals are gone)
ScoreGoto(s) ==
    /\ start' = s
    /\ IF s < Len(current_nuggets')
       THEN /\ spc' = "s_trial"
            /\ stage_prompt' =
                  Slice(current_nuggets', s,
                        WindowEnd(Len(current_nuggets'), window_size, s))
            /\ temperature' = TempInit
            /\ trial_count' = TrialBudget
       ELSE /\ spc' = "s_done"
            /\ stage_prompt' = <<>>
            /\ temperature' = 0
            /\ trial_count' = 0

\* The scoring phase is entered (# Score the nuggets) with a running list of n
\* claims, as the extraction loop leaves it when its test fails.
ScoringEnter ==
    /\ spc = "s_begin"
    /\ \E n \in 0..MaxNuggets : current_nuggets = [i \in 1..n |-> i]
    /\ window_size \in 1..MaxWindow
    /\ store_trace \in BOOLEAN
    /\ NoBatch
    /\ NoPeer
    /\ documents = 1
    /\ max_nuggets = MaxNuggets
    /\ scored_nuggets = <<>>
    /\ StageFresh
    /\ NoAssign

\* scored_nuggets = [], start = 0
ScoreBegin ==
    /\ spc = "s_begin"
    /\ scored_nuggets' = <<>>
    /\ UNCHANGED <<documents, max_nuggets, current_nuggets>>
    /\ ScoreGoto(0)
    /\ UNCHANGED <<hvars, rvars, kvars, avars, gvars>>

\* A trial whose run call raises: break, and start = end.
ScoreRunRaises ==
    /\ spc = "s_trial"
    /\ trial_count > 0
    /\ \E r \in StageRunResults :
          /\ r.rpc # "returned"
          /\ StageRunEffect(r)
          /\ last_step' = [how |-> "run_raised", len |-> 0, items |-> Len(WindowClaims),
                           error |-> r.rpc]
    /\ called' = TRUE
    /\ UNCHANGED cvars
    /\ ScoreGoto(WindowEnd(Len(current_nuggets), window_size, start))
    /\ UNCHANGED <<kvars, avars, partials>>

\* A trial whose response is parsed and mapped without an exception.
ScoreParsed ==
    /\ spc = "s_trial"
    /\ trial_count > 0
    /\ \E r \in StageRunResults :
          /\ r.rpc = "returned"
          /\ StageRunEffect(r)
    /\ called' = TRUE
    /\ \E resp \in Responses(ScoreElems, Len(WindowClaims)) :
          /\ ~ParseRaises(WindowClaims, resp)
          /\ scored_nuggets' = scored_nuggets \o ScoreEntities(WindowClaims, resp.value)
          /\ last_step' = Step("parsed", Len(resp.value), Len(WindowClaims))
    /\ UNCHANGED <<documents, max_nuggets, current_nuggets>>
    /\ ScoreGoto(WindowEnd(Len(current_nuggets), window_size, start))
    /\ UNCHANGED <<kvars, avars, partials>>

\* A trial whose second try block raises: the entities appended before the
\* exception stay, the trial is counted and the temperature raised; on the
\* last trial the window is emitted with the default importance and left.
ScoreParseRaises ==
    /\ spc = "s_trial"
    /\ trial_count > 0
    /\ \E r \in StageRunResults :
          /\ r.rpc = "returned"
          /\ StageRunEffect(r)
    /\ called' = TRUE
    /\ \E resp \in Responses(ScoreElems, Len(WindowClaims)) :
          /\ ParseRaises(WindowClaims, resp)
          /\ LET kept == IF resp.parsed
                         THEN ScoreEntities(WindowClaims, resp.value)
                         ELSE <<>>
             IN
             /\ Len(kept) > 0 => partials < MaxPartials
             /\ partials' = IF Len(kept) > 0 THEN partials + 1 ELSE partials
             /\ scored_nuggets' =
                   IF trial_count - 1 = 0
                   THEN scored_nuggets \o kept
                            \o ScoreAll(WindowClaims, ExhaustedImportance)
                   ELSE scored_nuggets \o kept
    /\ UNCHANGED <<documents, max_nuggets, current_nuggets>>
    /\ IF trial_count - 1 = 0
       THEN /\ last_step' = Step("exhausted", 0, Len(WindowClaims))
            /\ ScoreGoto(WindowEnd(Len(current_nuggets), window_size, start))
       ELSE /\ last_step' = Step("retry", 0, Len(WindowClaims))
            /\ trial_count' = trial_count - 1
            /\ temperature' = TempRetry
            /\ UNCHANGED <<start, spc, stage_prompt>>
    /\ UNCHANGED <<kvars, avars>>

InitScoring == StageHandlerInit /\ RunIdle /\ ScoringEnter

NextScoring == ScoreBegin \/ ScoreRunRaises \/ ScoreParsed \/ ScoreParseRaises

SpecScoring == InitScoring /\ [][NextScoring]_vars

-----------------------------------------------------------------------------
(* Nuggetizer.create(request): the extraction phase                        *)

\* What the provider may put in a list of claims.
ClaimTexts == {1, 2}

\* The responses of an extraction window: no literal, or a list of claims.
ExtractResponses(cap) ==
    {[parsed |-> FALSE, value |-> <<>>]}
    \cup {[parsed |-> TRUE, value |-> v] : v \in SeqsUpTo(ClaimTexts, cap + 1)}

\* slicing that keeps the whole list
TruncateNone(seq, cap) == seq

\* nugget_texts[:self.creator_max_nuggets]
Truncate(seq, cap) == [i \in 1..Min(Len(seq), cap) |-> seq[i]]

\* create is called.
CreateEnter ==
    /\ spc = "e_begin"
    /\ documents \in 0..MaxDocs
    /\ window_size \in 1..MaxWindow
    /\ store_trace \in BOOLEAN
    /\ NoBatch
    /\ NoPeer
    /\ max_nuggets \in 1..MaxCap
    /\ current_nuggets = <<>>
    /\ scored_nuggets = <<>>
    /\ StageFresh
    /\ NoAssign

\* The test of while start < len(request.documents) with start as it is: the
\* window's temperature and trial_count; or, the loop ended, scored_nuggets = [],
\* start = 0 and the scoring loop's test.
ExtractGoto ==
    IF start < documents
    THEN /\ spc' = "e_trial"
         /\ stage_prompt' =
               <<start, WindowEnd(documents, window_size, start)>> \o current_nuggets'
         /\ temperature' = TempInit
         /\ trial_count' = TrialBudget
         /\ UNCHANGED <<start, scored_nuggets>>
    ELSE /\ scored_nuggets' = <<>>
         /\ ScoreGoto(0)

\* current_nuggets = [], start = 0
CreateBegin ==
    /\ spc = "e_begin"
    /\ UNCHANGED <<documents, max_nuggets, current_nuggets>>
    /\ ExtractGoto
    /\ UNCHANGED <<hvars, rvars, kvars, avars, gvars>>

\* A trial whose run call raises: break. No statement follows the inner loop in
\* the outer loop's body, so start keeps its value and the same window is next.
ExtractRunRaises ==
    /\ spc = "e_trial"
    /\ trial_count > 0
    /\ \E r \in StageRunResults :
          /\ r.rpc # "returned"
          /\ StageRunEffect(r)
          /\ last_step' = [how |-> "run_raised", len |-> 0, items |-> WindowEnd(documents, window_size, start) - start,
                           error |-> r.rpc]
    /\ called' = TRUE
    /\ UNCHANGED <<documents, max_nuggets, current_nuggets>>
    /\ ExtractGoto
    /\ UNCHANGED <<kvars, avars, partials>>

\* A trial whose response parses: the running list is replaced, break.
\* last_step also keeps the parsed list (value) and the running list the
\* prompt was built with (before).
ExtractParsed ==
    /\ spc = "e_trial"
    /\ trial_count > 0
    /\ \E r \in StageRunResults :
          /\ r.rpc = "returned"
          /\ StageRunEffect(r)
    /\ called' = TRUE
    /\ \E resp \in ExtractResponses(max_nuggets) :
          /\ resp.parsed
          /\ current_nuggets' = Truncate(resp.value, max_nuggets)
          /\ last_step' = [how |-> "parsed", len |-> Len(resp.value),
                           items |-> WindowEnd(documents, window_size, start) - start,
                           value |-> resp.value, before |-> current_nuggets]
    /\ UNCHANGED <<documents, max_nuggets>>
    /\ ExtractGoto
    /\ UNCHANGED <<kvars, avars, partials>>

\* ExtractParseRaises that empties the running list when no trial is left
ExtractParseRaisesClears ==
    /\ spc = "e_trial"
    /\ trial_count > 0
    /\ \E r \in StageRunResults :
          /\ r.rpc = "returned"
          /\ StageRunEffect(r)
    /\ called' = TRUE
    /\ UNCHANGED <<documents, max_nuggets>>
    /\ current_nuggets' = IF trial_count - 1 = 0 THEN <<>> ELSE current_nuggets
    /\ IF trial_count - 1 = 0
       THEN /\ last_step' = Step("exhausted", 0,
                                 WindowEnd(documents, window_size, start) - start)
            /\ ExtractGoto
       ELSE /\ last_step' = Step("retry", 0,
                                 WindowEnd(documents, window_size, start) - start)
            /\ trial_count' = trial_count - 1
            /\ temperature' = TempRetry
            /\ UNCHANGED <<start, spc, stage_prompt, scored_nuggets>>
    /\ UNCHANGED <<kvars, avars, partials>>

\* A trial whose response does not parse: temperature 0.2, one trial less;
\* the inner loop ends when none is left.
ExtractParseRaises ==
    /\ spc = "e_trial"
    /\ trial_count > 0
    /\ \E r \in StageRunResults :
          /\ r.rpc = "returned"
          /\ StageRunEffect(r)
    /\ called' = TRUE
    /\ UNCHANGED <<documents, max_nuggets, current_nuggets>>
    /\ IF trial_count - 1 = 0
       THEN /\ last_step' = Step("exhausted", 0,
                                 WindowEnd(documents, window_size, start) - start)
            /\ ExtractGoto
       ELSE /\ last_step' = Step("retry", 0,
                                 WindowEnd(documents, window_size, start) - start)
            /\ trial_count' = trial_count - 1
            /\ temperature' = TempRetry
            /\ UNCHANGED <<start, spc, stage_prompt, scored_nuggets>>
    /\ UNCHANGED <<kvars, avars, partials>>

InitCreate == StageHandlerInit /\ RunIdle /\ CreateEnter

NextCreate ==
    CreateBegin \/ ExtractRunRaises \/ ExtractParsed \/ ExtractParseRaises

SpecCreate == InitCreate /\ [][NextCreate]_vars

\* create runs on a thread that is not stopped: a step that can be taken is taken.
FairSpecCreate == SpecCreate /\ WF_vars(NextCreate)

-----------------------------------------------------------------------------
(* The windowed stages that emit one entity per item: assign and the       *)
(* scoring phase of create.                                                *)

InitStages == InitAssign \/ InitScoring

NextStages == NextAssign \/ NextScoring

SpecStages == InitStages /\ [][NextStages]_vars

-----------------------------------------------------------------------------
(* The provider client on its own: run called again and again.             *)

\* No stage call is in progress.
StageNone ==
    /\ spc = "none"
    /\ window_size = 1
    /\ store_trace = TRUE
    /\ NoBatch
    /\ NoPeer
    /\ StageFresh
    /\ NoAssign
    /\ NoCreate

Init == HandlerInit /\ RunIdle /\ StageNone

Next == RunEnter \/ Attempt \/ AsyncAttempt

Spec == Init /\ [][Next]_vars

-----------------------------------------------------------------------------
(* The token count of run: what follows a provider call that came back     *)
(* with a response. The encoding is chosen inside a try block of its own,  *)
(* whose except branch gets the default encoding; the response is encoded  *)
(* after that block, inside the outer try.                                 *)

\* How the tokenizer library behaves in one attempt: choose is "the
\* get_encoding of the model family raises", fallback "get_encoding of
\* cl100k_base raises", encode "encoding.encode(response) raises".
TokenCases == [choose : BOOLEAN, fallback : BOOLEAN, encode : BOOLEAN]

\* The exception leaves the inner try block and reaches `except Exception as e`.
TokenizeRaises(t) == (t.choose /\ t.fallback) \/ t.encode

\* The provider outcome of an attempt whose request came back with a response
\* and whose tokenizer behaves as t.
TokenOutcome(t) ==
    [completion |-> TRUE, finish |-> "stop", raises |-> TokenizeRaises(t)]

\* One iteration of the while loop of run (LLMHandler or AsyncLLMHandler) in
\* which the provider returns a response.
TokenAttempt ==
    /\ rpc = "running"
    /\ IF handler_kind = "sync" THEN remaining_retry > 0
                                ELSE Len(attempts) < MaxAsyncCalls
    /\ \E t \in TokenCases :
          LET o == TokenOutcome(t)
              h == IF handler_kind = "sync" THEN RunStep(RunRec, api_keys, o)
                                            ELSE AsyncRunStep(RunRec, api_keys, o)
          IN  /\ rpc' = h.rpc
              /\ remaining_retry' = h.remaining_retry
              /\ current_key_idx' = h.current_key_idx
              /\ client_api_key' = h.client_api_key
              /\ attempts' = Append(attempts,
                    [key |-> client_api_key, outcome |-> o, messages |-> messages,
                     temperature |-> run_temperature, tokenizer |-> t])
    /\ UNCHANGED <<handler_kind, api_keys, model, ctor, built, prompt,
                   caller_messages, messages, run_temperature, svars>>

InitToken == HandlerInit /\ model = Gpt4o /\ RunIdle /\ StageNone

NextToken == RunEnter \/ TokenAttempt

SpecToken == InitToken /\ [][NextToken]_vars

-----------------------------------------------------------------------------
(* Two assign calls on one Nuggetizer at the same time: each is inside a   *)
(* run call of self.assigner_llm, the one handler __init__ built. The      *)
(* handler's current_key_idx and client.api_key are attributes of that     *)
(* object; remaining_retry is a local of each run call.                    *)

\* The second caller has not called run yet.
PeerIdle == [rpc |-> "idle", remaining_retry |-> 0, key |-> 0]

\* The second caller enters run: remaining_retry = 5.
PeerEnter ==
    /\ peer.rpc \in {"idle", "returned", "RuntimeError", "ValueError"}
    /\ peer' = [rpc |-> "running", remaining_retry |-> MaxRetry, key |-> 0]
    /\ UNCHANGED <<hvars, rvars, lvars, wvars, bvars, avars, cvars, gvars>>

\* One iteration of the while loop of the second caller's run: the request
\* goes out with the client's credential of the moment; a failure rotates the
\* handler's credential.
PeerAttempt ==
    /\ peer.rpc = "running"
    /\ peer.remaining_retry > 0
    /\ \E o \in Outcomes :
          LET h == RunStep([rpc |-> "running",
                            remaining_retry |-> peer.remaining_retry,
                            current_key_idx |-> current_key_idx,
                            client_api_key |-> client_api_key], api_keys, o)
          IN  /\ peer' = [rpc |-> h.rpc, remaining_retry |-> h.remaining_retry,
                          key |-> client_api_key]
              /\ current_key_idx' = h.current_key_idx
              /\ client_api_key' = h.client_api_key
    /\ UNCHANGED <<handler_kind, api_keys, model, ctor, built, rvars, lvars, wvars,
                   bvars, avars, cvars, gvars>>

InitShared ==
    /\ HandlerInit
    /\ handler_kind = "sync"
    /\ model = Gpt4o
    /\ RunIdle
    /\ spc = "none"
    /\ window_size = 1
    /\ store_trace = TRUE
    /\ StageFresh
    /\ NoAssign
    /\ NoCreate
    /\ NoBatch
    /\ peer = PeerIdle

NextShared == RunEnter \/ Attempt \/ PeerEnter \/ PeerAttempt

SpecShared == InitShared /\ [][NextShared]_vars

-----------------------------------------------------------------------------
(* Two AsyncLLMHandler.run calls as tasks of one event loop. The loop has  *)
(* one thread: a task runs from the point it is resumed to its next await, *)
(* and the only await of run is the provider request. A task is             *)
(* "awaiting" (suspended in await ...create), "sleeping" (inside the pause *)
(* after a failed attempt) or "returned". The second task works on a       *)
(* handler of its own.                                                     *)

\* the call run pauses with: time.sleep(0.1)
PauseCall == "time.sleep"

\* time.sleep returns only when the time is over and keeps the calling thread
\* for that long; await asyncio.sleep suspends the task and gives the thread
\* back to the loop.
Blocks(pause) == pause = "time.sleep"

\* The thread of the event loop is not held by a pausing task.
ThreadFree == Blocks(PauseCall) => (rpc # "sleeping" /\ peer.rpc # "sleeping")

\* The first task is started: it runs to the await of its first request.
LoopEnter ==
    /\ rpc = "idle"
    /\ ThreadFree
    /\ rpc' = "awaiting"
    /\ prompt' \in Prompts
    /\ caller_messages' = IF AsyncPrelude(model, prompt', TempInit).merged
                          THEN MergeInPlace(prompt', prompt')
                          ELSE prompt'
    /\ messages' = AsyncPrelude(model, prompt', TempInit).messages
    /\ run_temperature' = AsyncPrelude(model, prompt', TempInit).temperature
    /\ UNCHANGED <<remaining_retry, attempts, hvars, svars>>

\* The first task is resumed with the outcome of its request: it returns, or
\* it rotates the credential and enters the pause.
LoopResume ==
    /\ rpc = "awaiting"
    /\ ThreadFree
    /\ Len(attempts) < MaxAsyncCalls
    /\ \E o \in Outcomes :
          LET h == AsyncRunStep(RunRec, api_keys, o) IN
          /\ rpc' = IF o.raises THEN "sleeping" ELSE "returned"
          /\ current_key_idx' = h.current_key_idx
          /\ client_api_key' = h.client_api_key
          /\ attempts' = Append(attempts,
                [key |-> client_api_key, outcome |-> o,
                 messages |-> messages, temperature |-> run_temperature])
    /\ UNCHANGED <<handler_kind, api_keys, model, ctor, built, remaining_retry,
                   prompt, caller_messages, messages, run_temperature, svars>>

\* The pause of the first task is over: the next iteration sends the next
\* request and awaits it.
LoopWake ==
    /\ rpc = "sleeping"
    /\ rpc' = "awaiting"
    /\ UNCHANGED <<remaining_retry, attempts, prompt, caller_messages, messages,
                   run_temperature,
                   hvars, svars>>

\* The second task is started.
PeerLoopEnter ==
    /\ peer.rpc = "idle"
    /\ ThreadFree
    /\ peer' = [peer EXCEPT !.rpc = "awaiting"]
    /\ UNCHANGED <<hvars, rvars, lvars, wvars, bvars, avars, cvars, gvars>>

\* The second task is resumed with the outcome of its request.
PeerLoopResume ==
    /\ peer.rpc = "awaiting"
    /\ ThreadFree
    /\ \E o \in Outcomes :
          peer' = [peer EXCEPT !.rpc = IF o.raises THEN "sleeping" ELSE "returned"]
    /\ UNCHANGED <<hvars, rvars, lvars, wvars, bvars, avars, cvars, gvars>>

\* The pause of the second task is over.
PeerLoopWake ==
    /\ peer.rpc = "sleeping"
    /\ peer' = [peer EXCEPT !.rpc = "awaiting"]
    /\ UNCHANGED <<hvars, rvars, lvars, wvars, bvars, avars, cvars, gvars>>

InitLoop ==
    /\ HandlerInit
    /\ handler_kind = "async"
    /\ model = Gpt4o
    /\ RunIdle
    /\ spc = "none"
    /\ window_size = 1
    /\ store_trace = TRUE
    /\ StageFresh
    /\ NoAssign
    /\ NoCreate
    /\ NoBatch
    /\ peer = PeerIdle

NextLoop ==
    \/ LoopEnter
    \/ LoopResume
    \/ LoopWake
    \/ PeerLoopEnter
    \/ PeerLoopResume
    \/ PeerLoopWake

SpecLoop == InitLoop /\ [][NextLoop]_vars

-----------------------------------------------------------------------------
(* Construction of a handler *)

InitCtor == ctor \in CtorInputs /\ Unbuilt /\ RunIdle /\ StageNone

NextCtor == Construct

SpecCtor == InitCtor /\ [][NextCtor]_vars

-----------------------------------------------------------------------------
(* Properties *)

InAssign == spc \in {"a_begin", "a_trial", "a_done"}
InScoring == spc \in {"s_begin", "s_trial", "s_done"}

\* the last k entries of seq
LastOf(seq, k) == Slice(seq, Len(seq) - k, Len(seq))

\* the credential after k in api_keys, circularly
KeyAfter(k) ==
    LET i == CHOOSE j \in 1..Len(api_keys) : api_keys[j] = k IN
    api_keys[(i % Len(api_keys)) + 1]

\* C1: the list assign returns has exactly len(nuggets) entries, and its i-th
\* entry carries the text and importance of the i-th input nugget.
C1_AssignOnePerNugget ==
    spc = "a_done" =>
        /\ Len(assigned_nuggets) = Len(nuggets)
        /\ \A i \in 1..Len(nuggets) :
              /\ assigned_nuggets[i].text = nuggets[i].text
              /\ assigned_nuggets[i].importance = nuggets[i].importance

\* C2: create called with a non-empty document list returns, whatever the
\* provider does: every extraction window is left and the next one entered until
\* the documents are exhausted.
C2_CreateTerminates == (spc = "e_begin" /\ documents >= 1) ~> (spc = "s_done")

\* C3: every entry of the list assign builds has an assignment label in
\* {support, partial_support, not_support, failed}.
C3_AssignLabelInSet ==
    \A i \in 1..Len(assigned_nuggets) :
        assigned_nuggets[i].assignment \in
            {"support", "partial_support", "not_support", "failed"}

\* C4: assign with an empty context issues no generation call and returns every
\* input nugget labeled not_support.
C4_EmptyContextNoGeneration ==
    (InAssign /\ context = "") =>
        /\ ~called
        /\ spc = "a_done" => assigned_nuggets = AssignAll(nuggets, "not_support")

C6_LengthMismatchIsParseFailure ==
    last_step.how = "parsed" => last_step.len = last_step.items

\* C7: one LLMHandler.run call makes at most 5 provider calls, returns at the
\* first call that succeeds (so after one call when the first succeeds), and
\* raises RuntimeError exactly when 5 calls have failed.
C7_RunAtMostFiveCalls ==
    handler_kind = "sync" =>
        /\ Len(attempts) <= 5
        /\ \A i \in 1..Len(attempts) :
              ~attempts[i].outcome.raises => (i = Len(attempts) /\ rpc = "returned")
        /\ rpc = "returned" =>
              (Len(attempts) >= 1 /\ ~attempts[Len(attempts)].outcome.raises)
        /\ (Len(attempts) = 5 /\ \A i \in 1..5 : attempts[i].outcome.raises)
              => rpc = "RuntimeError"
        /\ rpc = "RuntimeError" =>
              (Len(attempts) = 5 /\ \A i \in 1..5 : attempts[i].outcome.raises)

C7_Witness ==
    /\ handler_kind = "sync"
    /\ rpc = "RuntimeError"
    /\ Len(attempts) = 5

\* C8: inside run (LLMHandler and AsyncLLMHandler), a provider call that follows
\* a failed one uses the next credential of api_keys, circularly; with 2
\* credentials and a failure on the first call the second call uses the second
\* credential and current_key_idx is 1.
C8_NextCallUsesNextCredential ==
    /\ \A i \in 2..Len(attempts) :
          /\ attempts[i - 1].outcome.raises
          /\ attempts[i].key = KeyAfter(attempts[i - 1].key)
    /\ (rpc = "running" /\ Len(attempts) >= 1) =>
          client_api_key = KeyAfter(attempts[Len(attempts)].key)
    /\ (Len(api_keys) = 2 /\ Len(attempts) = 2 /\ attempts[1].key = api_keys[1]
          /\ rpc = "returned") =>
          (attempts[2].key = api_keys[2] /\ current_key_idx = 1)

C8_Witness ==
    /\ handler_kind = "async"
    /\ Len(api_keys) = 2
    /\ Len(attempts) = 3
    /\ attempts[1].key = api_keys[1]
    /\ attempts[2].key = api_keys[2]
    /\ attempts[3].key = api_keys[1]
    /\ rpc = "returned"

\* C9: a provider response whose finish reason is content_filter makes
\* LLMHandler.run fail at once: it is the last call of the run, the run raises,
\* and the credential is the one the call used.
C9_ContentFilterIsFatal ==
    handler_kind = "sync" =>
        \A i \in 1..Len(attempts) :
            attempts[i].outcome.finish = "content_filter" =>
                /\ i = Len(attempts)
                /\ rpc \in {"ValueError", "RuntimeError"}
                /\ client_api_key = attempts[i].key

\* C10 as stated: when a window's retry budget reaches zero the stage emits
\* every item of the window with the default, okay in scoring and, a response
\* having been obtained, not_support in assignment.
C10_ExhaustedEmitsNotSupport ==
    last_step.how = "exhausted" =>
        IF InAssign
        THEN LastOf(assigned_nuggets, last_step.items) =
                AssignAll(Slice(nuggets, start - last_step.items, start), "not_support")
        ELSE LastOf(scored_nuggets, last_step.items) =
                ScoreAll(Slice(current_nuggets, start - last_step.items, start), "okay")

\* C10 amended: when a window's retry budget reaches zero the stage raises
\* nothing and emits every item of the window with the default: okay in
\* scoring, failed in assignment.
C10_ExhaustedEmitsDefault ==
    last_step.how = "exhausted" =>
        /\ spc \in {"a_trial", "a_done", "s_trial", "s_done"}
        /\ IF InAssign
           THEN LastOf(assigned_nuggets, last_step.items) =
                   AssignAll(Slice(nuggets, start - last_step.items, start), "failed")
           ELSE LastOf(scored_nuggets, last_step.items) =
                   ScoreAll(Slice(current_nuggets, start - last_step.items, start), "okay")

C10_Witness ==
    /\ last_step.how = "exhausted"
    /\ last_step.items = 2
    /\ InAssign
    /\ Len(assigned_nuggets) >= 2

\* the stage is in the inner while loop of a window
InTrial == spc \in {"a_trial", "s_trial", "e_trial"}

\* C11: a window's first generation call uses temperature 0.0 with a budget of
\* 500; once a parse failure has raised the temperature to 0.2, every later
\* generation call for the same window uses 0.2; a window that starts, starts
\* at 0.0 with a budget of 500.
C11_TemperatureEscalation ==
    /\ [][(InTrial /\ InTrial' /\ start' = start /\ temperature = TempRetry)
              => temperature' = TempRetry]_vars
    /\ [][(InTrial' /\ (~InTrial \/ start' # start))
              => (temperature' = TempInit /\ trial_count' = TrialBudget)]_vars

\* C12: a generation call that raises (the provider client gave up) is handled
\* like a parse failure: the window's trial_count is decremented, the
\* temperature becomes 0.2 and the same window gets another generation call.
C12_RunFailureIsRetried ==
    [][last_step'.how = "run_raised"
          => /\ spc' = spc
             /\ start' = start
             /\ trial_count' = trial_count - 1
             /\ temperature' = TempRetry]_vars

\* C13: after a successful parse in an extraction window the running claim list
\* is the parsed list cut to its first creator_max_nuggets entries, whatever the
\* running list was before, and the running list never exceeds the cap.
C13_ExtractionSupersedes ==
    /\ Len(current_nuggets) <= max_nuggets
    /\ (spc = "e_trial" /\ last_step.how = "parsed") =>
          current_nuggets =
              SubSeq(last_step.value, 1, Min(Len(last_step.value), max_nuggets))

C13_Witness ==
    /\ spc = "e_trial"
    /\ last_step.how = "parsed"
    /\ last_step.before # <<>>
    /\ last_step.before # current_nuggets
    /\ Len(last_step.value) > max_nuggets
    /\ Len(current_nuggets) = max_nuggets

\* C14: a content-filter error (ValueError) raised by run during assign leaves
\* assign as an exception: the stage does not absorb it and go on.
C14_ContentFilterPropagates ==
    (last_step.how = "run_raised" /\ last_step.error = "ValueError")
        => spc = "a_raised"

\* C15: a transport error (run raised) or a parse error that used up the budget
\* is absorbed by the stage, which goes on to the following window: start moves
\* past the window that failed.
C15_FailureAbsorbedNextWindow ==
    [][last_step'.how \in {"run_raised", "exhausted"}
          => start' = start + last_step'.items]_vars

\* the model name contains o1, o3 or o4
NoSystemRole(m) ==
    \/ Contains(m, <<"o", "1">>)
    \/ Contains(m, <<"o", "3">>)
    \/ Contains(m, <<"o", "4">>)

\* prompt with its first two messages merged into one
MergedPrompt ==
    <<Msg("user", prompt[1].content \o <<"\n">> \o prompt[2].content)>>
        \o SubSeq(prompt, 3, Len(prompt))

\* C16: for a model whose name contains o1, o3 or o4, run makes its retries and
\* every provider call of the run, the first and every retry, sends the
\* caller's message list with its first two messages merged into one, at
\* temperature 1.0.
C16_MergedOnEveryCall ==
    (rpc # "idle" /\ NoSystemRole(model)) =>
        /\ rpc # "IndexError"
        /\ \A i \in 1..Len(attempts) :
              /\ attempts[i].messages = MergedPrompt
              /\ attempts[i].temperature = TempForced

\* m.startswith(p)
StartsWith(m, p) == Len(m) >= Len(p) /\ SubSeq(m, 1, Len(p)) = p

\* "openrouter/"
OpenRouterPrefix == <<"o", "p", "e", "n", "r", "o", "u", "t", "e", "r", "/">>

\* C17: a handler constructed with an explicit api_type is built for that
\* backend, whatever the use_* flags, the model name, api_keys and the
\* environment; with api_type = "openrouter" (and no api_base given) the client
\* has the OpenRouter base URL and the handler has api_type == "openrouter".
C17_ExplicitApiTypeWins ==
    (built.status = "ok" /\ ctor.api_type # None) =>
        /\ built.api_type = ctor.api_type
        /\ (ctor.api_type = "openrouter" /\ ctor.api_base = None) =>
              /\ built.client.base_url = "https://openrouter.ai/api/v1"
              /\ "api_type" \in built.attrs

\* C18: with a model name that starts with "openrouter/", no api_type, no
\* api_keys, no use_* flag and the OpenRouter credential in the environment,
\* the handler is built for OpenRouter: the client has the OpenRouter base URL
\* and that credential, whether or not an OpenAI credential is present too.
C18_ModelPrefixSelectsOpenRouter ==
    (/\ built.status # "none"
     /\ StartsWith(ctor.model, OpenRouterPrefix)
     /\ ctor.api_type = None /\ ctor.api_keys = None /\ ctor.api_base = None
     /\ ctor.openrouter_api_key = None
     /\ ~ctor.use_azure_openai /\ ~ctor.use_openrouter /\ ~ctor.use_vllm
     /\ ctor.env_openrouter # None) =>
        /\ built.status = "ok"
        /\ built.api_type = "openrouter"
        /\ built.client.base_url = "https://openrouter.ai/api/v1"
        /\ built.client.api_key = ctor.env_openrouter

C20_OpenRouterWithoutKeyRaises ==
    (/\ built.status # "none"
     /\ \/ StartsWith(ctor.model, OpenRouterPrefix)
        \/ ctor.api_type = "openrouter"
        \/ ctor.use_openrouter
     /\ ~ctor.use_azure_openai /\ ~ctor.use_vllm
     /\ ctor.api_keys = None
     /\ ctor.openrouter_api_key = None
     /\ ctor.env_openrouter = None) =>
        built.status = "ValueError"

\* C21: a connection parameter the caller supplies is the one the client is
\* built with, on every backend: api_keys is the client's credential and
\* api_base is the client's base URL.
C21_CallerParametersWin ==
    built.status = "ok" =>
        /\ ctor.api_keys # None => built.client.api_key = ctor.api_keys
        /\ ctor.api_base # None => built.client.base_url = ctor.api_base

\* C22: with use_vllm set, no explicit api_type and the Azure flag unset, a
\* handler that is built targets the local server http://localhost:8000/v1,
\* whether or not api_keys is supplied and whether or not use_openrouter is set.
C22_VllmTargetsLocalServer ==
    (built.status = "ok" /\ ctor.use_vllm /\ ctor.api_type = None
        /\ ~ctor.use_azure_openai)
    => (built.api_type = "vllm" /\ built.client.base_url = VllmUrl)

C24_TraceFollowsStoreTrace ==
    /\ \A i \in 1..Len(assigned_nuggets) :
          (assigned_nuggets[i].trace # None) <=> store_trace
    /\ \A i \in 1..Len(scored_nuggets) :
          (scored_nuggets[i].trace # None) <=> store_trace

\* the attempts of the current run whose provider call raised
FailedAttempts == {i \in 1..Len(attempts) : attempts[i].outcome.raises}

\* C25: AsyncLLMHandler.run is bounded under persistent provider failure:
\* once 5 attempts have failed the call has ended with a fatal error, so no
\* run makes a sixth attempt after five failures.
C25_AsyncRunGivesUp ==
    (handler_kind = "async" /\ Cardinality(FailedAttempts) >= MaxRetry)
    => (rpc = "RuntimeError" /\ Len(attempts) = MaxRetry)

\* the generation calls assign has issued for the window it is in: the trials
\* used up, each trial being one call of run
WindowCalls == 500 - trial_count

\* C26: assign terminates for every input with window size >= 1 and any
\* provider behaviour, and it issues at most 500 generation calls per window:
\* while a window is open fewer than 500 calls have been issued for it, each call
\* either uses up one trial or leaves the window, and a window that is left
\* gives way to the next consecutive one, so the windows are
\* ceil(len(nuggets) / window_size) at most.
C26_AssignTerminatesWithinBudget ==
    /\ <>(spc = "a_done")
    /\ [](spc = "a_trial" => (trial_count \in 1..500 /\ WindowCalls < 500))
    /\ [][spc = "a_trial" =>
            \/ /\ spc' = "a_trial"
               /\ start' = start
               /\ WindowCalls' = WindowCalls + 1
            \/ /\ start' = WindowEnd(Len(nuggets), window_size, start)
               /\ start' > start
               /\ spc' \in {"a_trial", "a_done"}
               /\ spc' = "a_trial" => WindowCalls' = 0]_vars

\* the last window of a two-window input has used up its whole budget
C26_Witness ==
    /\ spc = "a_done"
    /\ Len(nuggets) = MaxNuggets
    /\ window_size = 2
    /\ last_step.how = "exhausted"
    /\ called

\* the texts of the nuggets of a list
TextsOf(list) == {list[i].text : i \in 1..Len(list)}

\* C27: assign_batch raises ValueError without issuing any generation call
\* when queries, contexts and nuggets_list do not all have the same length;
\* otherwise it returns one result list per input triple, the k-th result being
\* built from the nuggets of the k-th triple.
C27_BatchOnePerTriple ==
    /\ (LengthsDiffer(batch) /\ bpc # "b_begin") =>
          (bpc = "b_ValueError" /\ ~called /\ batch_results = <<>>)
    /\ bpc = "b_ValueError" => LengthsDiffer(batch)
    /\ bpc = "b_done" => Len(batch_results) = Len(batch.nuggets_list)
    /\ \A k \in 1..Len(batch_results) :
          /\ k <= Len(batch.nuggets_list)
          /\ TextsOf(batch_results[k]) \subseteq TextsOf(batch.nuggets_list[k])

\* a batch of two triples has returned two non-empty lists
C27_Witness ==
    /\ bpc = "b_done"
    /\ Len(batch_results) = MaxBatch
    /\ \A k \in 1..MaxBatch : Len(batch_results[k]) > 0

\* the fixed input the windows of the stage are taken from
StageInput == IF InAssign THEN nuggets ELSE current_nuggets

\* a call of the stage is in one of its windows
InWindow == spc \in {"a_trial", "s_trial"}

\* C28: in assign and in the scoring phase of create the windows are the
\* consecutive slices [k*w, min((k+1)*w, n)) of the fixed input, visited in
\* increasing k and each exactly once, and the prompt of a window is built from
\* its own slice only.
C28_WindowsConsecutiveOwnSlice ==
    /\ [](InWindow =>
            \E k \in 0..Len(StageInput) :
               /\ start = k * window_size
               /\ start < Len(StageInput)
               /\ stage_prompt =
                     [i \in 1..(Min((k + 1) * window_size, Len(StageInput))
                                  - k * window_size) |->
                         StageInput[k * window_size + i]])
    /\ [](spc \in {"a_done", "s_done"} => start = Len(StageInput))
    /\ [][(InAssign \/ InScoring) =>
            /\ StageInput' = StageInput
            /\ \/ start' = start
               \/ /\ InWindow
                  /\ start' = Min(start + window_size, Len(StageInput))
                  /\ start' > start]_vars

\* the second window of a three-item input is open, the first one left
C28_Witness ==
    /\ InWindow
    /\ Len(StageInput) = MaxNuggets
    /\ window_size = 2
    /\ start = 2
    /\ Len(stage_prompt) = 1
    /\ called

\* C29: concurrent assign calls on one Nuggetizer share no mutable state: a
\* step of one call, a credential rotation included, leaves the credential
\* the other in-flight call works with as it was.
C29_RotationIsPrivate ==
    [][(rpc = "running" /\ peer' # peer) => client_api_key' = client_api_key]_vars

\* C30: while one AsyncLLMHandler.run call is pausing after a failed attempt,
\* another in-flight call of the same event loop whose request has come back
\* can take its step.
C30_PauseYields ==
    (rpc = "sleeping" /\ peer.rpc = "awaiting") => ENABLED PeerLoopResume

\* the tokenizer failed in attempt i of the current run
TokenizerFailed(i) ==
    \/ attempts[i].tokenizer.choose
    \/ attempts[i].tokenizer.fallback
    \/ attempts[i].tokenizer.encode

\* C31: when choosing or applying the tokenizer fails after a provider
\* response was obtained, run returns that response: the attempt is the last
\* one of the call, the call has returned and the credential is the one the
\* attempt used.
C31_TokenizerFailureStillReturns ==
    \A i \in 1..Len(attempts) :
        TokenizerFailed(i) =>
            /\ i = Len(attempts)
            /\ rpc = "returned"
            /\ client_api_key = attempts[i].key

\* the Azure branch of __init__ is taken
AzureSelected ==
    /\ ctor.use_azure_openai
    /\ \/ ctor.api_keys = None
       \/ ctor.api_type = "azure"
       \/ (ctor.api_type = None /\ Contains(LowerName(ctor.model), <<"g", "p", "t">>))

\* C32: when the Azure backend is selected and one of its environment
\* settings is absent, construction fails with a configuration error
\* (ValueError) that names exactly the missing setting.
C32_AzureErrorNamesMissing ==
    (built # NotBuilt /\ AzureSelected /\ Cardinality(ctor.azure_missing) = 1)
    => /\ built.status = "ValueError"
       /\ built.names = ctor.azure_missing

\* a trial of the window that ended in the second except branch with trials
\* left: the same window is tried again
FailedParseStep ==
    /\ spc \in {"a_trial", "s_trial"}
    /\ spc' = spc
    /\ start' = start
    /\ trial_count' = trial_count - 1

\* C33: a failed parse attempt leaves the stage's output list unchanged: no
\* entity built from the response that raised part-way remains in the output.
C33_FailedParseLeavesOutput ==
    [][FailedParseStep => /\ assigned_nuggets' = assigned_nuggets
                          /\ scored_nuggets' = scored_nuggets]_vars

\* run is over: it returned or raised
RunOver == rpc \in {"returned", "RuntimeError", "ValueError", "IndexError"}

\* C34: run does not modify the messages passed by the caller, for every model
\* family: after run returned or raised, the caller's list and the content of
\* each of its messages are what they were when run was called.
C34_RunLeavesMessages ==
    RunOver => caller_messages = prompt

\* C35: after construction and after any sequence of run calls, successful or
\* failing, 0 <= current_key_idx < len(api_keys) and the client's credential is
\* api_keys[current_key_idx].
C35_KeyIndexSelectsCredential ==
    /\ current_key_idx \in 0..(Len(api_keys) - 1)
    /\ client_api_key = api_keys[current_key_idx + 1]

\* a second run has failed on a handler with two credentials, after a first
\* run that left the index on the second one
C35_Witness ==
    /\ Len(api_keys) = 2
    /\ rpc \in {"returned", "RuntimeError"}
    /\ Len(attempts) = 2
    /\ attempts[1].key = 2
    /\ current_key_idx = 0
    /\ client_api_key = 1

\* LLMHandler.run made all its attempts and every one of them failed
AllAttemptsFailed ==
    /\ handler_kind = "sync"
    /\ rpc = "RuntimeError"
    /\ Len(attempts) = MaxRetry

\* the credential at index (k + d) mod n
KeyAtOffset(k, d) == api_keys[((k + d) % Len(api_keys)) + 1]

\* the index of the credential the run's first attempt used
FirstIndex == CHOOSE k \in 0..(Len(api_keys) - 1) : api_keys[k + 1] = attempts[1].key

\* C36: rotation state persists across LLMHandler.run calls and is never reset:
\* in a run whose 5 attempts all fail, started at index k0 with n credentials,
\* attempt i uses credential (k0 + i - 1) mod n and the index ends at
\* (k0 + 4) mod n; entering the next run changes neither the index nor the
\* client's credential, and the first attempt of a run uses the credential
\* the index is on.
C36_RotationPersists ==
    /\ [](AllAttemptsFailed =>
            /\ \A i \in 1..MaxRetry : attempts[i].key = KeyAtOffset(FirstIndex, i - 1)
            /\ current_key_idx = (FirstIndex + MaxRetry - 1) % Len(api_keys)
            /\ client_api_key = api_keys[current_key_idx + 1])
    /\ [][/\ (rpc # "running" /\ rpc' = "running")
               => /\ current_key_idx' = current_key_idx
                  /\ client_api_key' = client_api_key
          /\ (handler_kind = "sync" /\ attempts = <<>> /\ Len(attempts') = 1)
               => attempts'[1].key = api_keys[current_key_idx + 1]]_vars

\* a run on two credentials that began on the second one, where an earlier
\* run had left the index, and failed five times
C36_Witness ==
    /\ AllAttemptsFailed
    /\ Len(api_keys) = 2
    /\ attempts[1].key = 2
    /\ attempts[5].key = 2
    /\ current_key_idx = 1

\* the step ends a trial loop of the extraction without a parsed list: the run
\* call raised, or the last trial's response did not parse
ExtractionWindowFails ==
    /\ spc = "e_trial"
    /\ last_step'.how \in {"run_raised", "exhausted"}

\* C37: when an extraction window ends without a successful parse (the provider
\* call failed for good, or the retry budget is used up), the running list of
\* claims is left exactly as the previous window produced it.
C37_FailedWindowKeepsClaims ==
    [][ExtractionWindowFails => current_nuggets' = current_nuggets]_vars

\* the retry budget of a window was used up while the running list held the
\* two claims of an earlier response
C37_Witness ==
    /\ last_step.how = "exhausted"
    /\ current_nuggets = <<1, 2>>
    /\ trial_count = TrialBudget

\* C38: assign leaves its input unchanged: from the call to the return the
\* nuggets list keeps its length, order, texts and importance labels, whatever
\* the provider returned.
C38_AssignLeavesInput ==
    [][(spc = "a_begin" \/ spc = "a_trial") => nuggets' = nuggets]_vars

\* assign returned one entity per nugget, built from a parsed response, and
\* the input is the list it was called with
C38_Witness ==
    /\ spc = "a_done"
    /\ last_step.how = "parsed"
    /\ nuggets = InputNuggets(MaxNuggets)
    /\ Len(assigned_nuggets) = MaxNuggets
    /\ assigned_nuggets[1].assignment = "support"

\* the other handler class
OtherKind(kind) == IF kind = "sync" THEN "async" ELSE "sync"

\* what the other handler class makes of the same arguments and environment
BuiltByOther == Build([ctor EXCEPT !.kind = OtherKind(ctor.kind)])

\* C39: for every combination of constructor arguments and environment
\* credentials, LLMHandler and AsyncLLMHandler resolve alike: both fail at
\* construction, or both succeed with the same backend, base endpoint and
\* initial credential.
C39_HandlersResolveAlike ==
    built # NotBuilt =>
        \/ built.status # "ok" /\ BuiltByOther.status # "ok"
        \/ /\ built.status = "ok"
           /\ BuiltByOther.status = "ok"
           /\ built.api_type = BuiltByOther.api_type
           /\ built.client.base_url = BuiltByOther.client.base_url
           /\ built.client.api_key = BuiltByOther.client.api_key

=============================================================================
